---- MODULE Spec2Model ----
(***************************************************************************)
(* The anomaly-detection service of src/src/ai/anomaly_detection.py:       *)
(* the serving pair (the module globals model and scaler), the two         *)
(* persisted artifacts, and the handlers /detect, /retrain and /health.    *)
(*                                                                         *)
(* Units.  Amounts are counted in units of 100000, times in hours since a  *)
(* Monday 00:00, ratios (risk scores, utilization, fiscal progress,        *)
(* frequencies) in thousandths, anomaly scores in tenths.                  *)
(***************************************************************************)
EXTENDS Integers, Sequences, FiniteSets, TLC

VARIABLES
  started,      \* "boot": the module is being imported, "up": serving, "crashed"
  model,        \* the global model (line 97, line 362)
  scaler,       \* the global scaler (line 97, line 363)
  modelBlob,    \* the file ISOLATION_FOREST_MODEL
  scalerBlob,   \* the file SCALER_MODEL
  passes,       \* the number of retraining passes fitted so far
  det,          \* the /detect request in flight
  ret,          \* the /retrain request in flight
  resp,         \* the last answer the service gave
  pin,          \* the arguments of a function applied on its own
  pout          \* its return value

vars ==
  <<started, model, scaler, modelBlob, scalerBlob, passes, det, ret, resp,
    pin, pout>>

serving ==
  <<started, model, scaler, modelBlob, scalerBlob, passes, det, ret, resp>>

------------------------------------------------------------------------------
(* Bounds of the model. *)

MaxPass ==
  2

MaxHist ==
  2

------------------------------------------------------------------------------
(* Small helpers. *)

Range(s) ==
  {s[i] : i \in DOMAIN s}

SeqsUpTo(S, n) ==
  UNION {[1..k -> S] : k \in 0..n}

RECURSIVE SumSeq(_)
SumSeq(s) ==
  IF s = <<>> THEN 0 ELSE Head(s) + SumSeq(Tail(s))

MaxOf(S) ==
  CHOOSE x \in S : \A y \in S : y <= x

MinOf(S) ==
  CHOOSE x \in S : \A y \in S : x <= y

Raise(name) ==
  [exc |-> name, value |-> 0]

Return(v) ==
  [exc |-> "none", value |-> v]

------------------------------------------------------------------------------
(* FEATURES (lines 23-39).                                                 *)

FEATURES ==
  << "amount", "previous_transaction_count", "average_amount", "frequency",
     "time_since_last", "transaction_hour", "weekend", "source_risk_score",
     "destination_risk_score", "geo_distance", "category_avg_amount",
     "category_max_amount", "category_frequency", "utilization_rate",
     "fiscal_progress" >>

------------------------------------------------------------------------------
(* calculate_entity_risk_score (lines 192-219).                            *)
(* A history record is [source_id, destination_id, amount, timestamp,      *)
(* fund_category]; a timestamp is [kind, h] with kind "datetime" for a     *)
(* datetime object and "str" for the ISO string a JSON body carries.       *)

AmountCap ==
  10

HoursPerWeek ==
  168

\* min(1.0, entity_txns['amount'].std() / avg_amount) in hundredths; std is
\* the sample standard deviation (ddof = 1) and s the sum of the n amounts.
VolatilityPct(amounts) ==
  LET n   == Len(amounts)
      s   == SumSeq(amounts)
      num == SumSeq([i \in 1..n |-> (n * amounts[i] - s) * (n * amounts[i] - s)])
      den == (n - 1) * s * s
  IN  IF num >= den THEN 100
      ELSE CHOOSE r \in 0..100 :
             /\ r * r * den <= 10000 * num
             /\ (r + 1) * (r + 1) * den > 10000 * num

Matches(entity_id, r) ==
  r.source_id = entity_id \/ r.destination_id = entity_id

calculate_entity_risk_score(entity_id, historical_data) ==
  IF historical_data = <<>> \/ entity_id = ""
  THEN Return(100)
  ELSE
    LET Test(r)     == Matches(entity_id, r)
        entity_txns == SelectSeq(historical_data, Test)
        n           == Len(entity_txns)
        amounts     == [i \in 1..n |-> entity_txns[i].amount]
        times       == {entity_txns[i].timestamp.h : i \in 1..n}
    IN  IF n = 0 THEN Return(200)
        ELSE IF \E i \in 1..n : entity_txns[i].timestamp.kind # "datetime"
        THEN Raise("TypeError")            \* str - str at line 209
        ELSE
          LET span       == MaxOf(times) - MinOf(times)
              max_amount == MaxOf(Range(amounts))
              total      == SumSeq(amounts)
          IN  IF span = 0 THEN Raise("ZeroDivisionError")   \* line 209
              ELSE
                LET byAmount == IF max_amount >= AmountCap THEN 300
                                ELSE (300 * max_amount) \div AmountCap
                    byFreq   == IF n * HoursPerWeek >= 10 * span THEN 200
                                ELSE (200 * n * HoursPerWeek) \div (10 * span)
                    byVol    == IF total > 0 THEN 5 * VolatilityPct(amounts) ELSE 0
                    risk_score == byAmount + byFreq + byVol
                IN  Return(IF risk_score < 100 THEN 100
                           ELSE IF risk_score > 1000 THEN 1000 ELSE risk_score)

------------------------------------------------------------------------------
(* The values a variable holds while its part of the program is not run.   *)

NoObject ==
  [kind |-> "None", pass |-> 0, offset |-> 0]

Idle ==
  [pc |-> "idle"]

NoResp ==
  [kind |-> "none"]

NoCall ==
  [fn |-> "none"]

ServingIdle ==
  /\ started = "up"
  /\ model = NoObject /\ scaler = NoObject
  /\ modelBlob = NoObject /\ scalerBlob = NoObject
  /\ passes = 0
  /\ det = Idle /\ ret = Idle
  /\ resp = NoResp

------------------------------------------------------------------------------
(* SpecRisk: calculate_entity_risk_score applied to an entity id and a    *)
(* history drawn from bounded sets.                                        *)

EntityIds ==
  {"", "A", "B"}

RiskRecords ==
  [source_id : {"A", "C"}, destination_id : {"A", "C"},
   amount : {0, 5, 20},
   timestamp : {[kind |-> "datetime", h |-> 0], [kind |-> "datetime", h |-> 24],
                [kind |-> "datetime", h |-> 720]},
   fund_category : {"ROADS"}]

InitRisk ==
  /\ ServingIdle
  /\ pin \in [fn : {"calculate_entity_risk_score"}, entity_id : EntityIds,
              historical_data : SeqsUpTo(RiskRecords, MaxHist)]
  /\ pout = NoResp

ApplyRisk ==
  /\ pin.fn = "calculate_entity_risk_score"
  /\ pout = NoResp
  /\ pout' = [kind |-> "returned"]
               @@ calculate_entity_risk_score(pin.entity_id, pin.historical_data)
  /\ UNCHANGED <<serving, pin>>

NextRisk ==
  ApplyRisk

SpecRisk ==
  InitRisk /\ [][NextRisk]_vars

\* C8: for every entity id and every history the scorer returns a score and
\* never an error: 0.1 for an empty id or an empty history, 0.2 when no
\* record names the id, and a value within [0.1, 1.0] when records match,
\* a single matching record and matching records of zero span included.
C8_RiskScoreTotal ==
  pout.kind = "returned" =>
    LET id   == pin.entity_id
        hist == pin.historical_data
        hits == {i \in DOMAIN hist : Matches(id, hist[i])}
    IN  /\ pout.exc = "none"
        /\ pout.value >= 100 /\ pout.value <= 1000
        /\ (id = "" \/ hist = <<>>) => pout.value = 100
        /\ (id # "" /\ hist # <<>> /\ hits = {}) => pout.value = 200

------------------------------------------------------------------------------
(* generate_anomaly_reason (lines 252-291) and the end of detect_anomaly   *)
(* (lines 237-250).  A feature row is a record over FEATURES.              *)

Separator ==
  " | "

Fallback ==
  "General anomalous pattern detected"

\* The if statements of lines 257-286, in order.
Rules(f) ==
  << [fires   |-> 2 * f.amount > 3 * f.category_max_amount,
      message |-> "Transaction amount significantly higher than category maximum"],
     [fires   |-> 1000 * f.amount > 3 * f.average_amount,
      message |-> "Transaction amount unusually high compared to historical average"],
     [fires   |-> f.transaction_hour >= 22 \/ f.transaction_hour <= 5,
      message |-> "Unusual transaction time (overnight hours)"],
     [fires   |-> f.weekend = 1,
      message |-> "Weekend transaction unusual for government funds"],
     [fires   |-> f.utilization_rate > 900 /\ f.fiscal_progress < 500,
      message |-> "High budget utilization rate early in fiscal year"],
     [fires   |-> f.utilization_rate > 1000,
      message |-> "Transaction would exceed allocated budget"],
     [fires   |-> f.time_since_last < 24 /\ f.previous_transaction_count > 0,
      message |-> "Unusually frequent transactions"],
     [fires   |-> f.source_risk_score > 700,
      message |-> "Source entity has high risk score"],
     [fires   |-> f.destination_risk_score > 700,
      message |-> "Destination entity has high risk score"] >>

RECURSIVE Join(_, _)
Join(sep, parts) ==
  IF parts = <<>> THEN ""
  ELSE IF Len(parts) = 1 THEN parts[1]
  ELSE parts[1] \o sep \o Join(sep, Tail(parts))

RECURSIVE Appended(_, _)
Appended(reasons, rules) ==
  IF rules = <<>> THEN reasons
  ELSE Appended(IF Head(rules).fires THEN Append(reasons, Head(rules).message)
                ELSE reasons,
                Tail(rules))

\* generate_anomaly_reason stopping at the first rule that matches.
generate_anomaly_reason_first(features, score) ==
  LET reasons == Appended(<<>>, Rules(features))
  IN  IF reasons = <<>> THEN Fallback ELSE reasons[1]

generate_anomaly_reason(features, score) ==
  LET reasons == Appended(<<>>, Rules(features))
  IN  Join(Separator, IF reasons = <<>> THEN <<Fallback>> ELSE reasons)

NoReason ==
  [present |-> FALSE, text |-> ""]

detect_result(prediction, anomaly_score, df_features) ==
  LET is_anomaly == (prediction = -1)
  IN  [is_anomaly    |-> is_anomaly,
       anomaly_score |-> anomaly_score,
       reason        |-> IF is_anomaly
                         THEN [present |-> TRUE,
                               text |-> generate_anomaly_reason(df_features,
                                                                anomaly_score)]
                         ELSE NoReason]

------------------------------------------------------------------------------
(* SpecTail: lines 237-250 applied to a prediction, a score and a feature  *)
(* row drawn from bounded sets.                                            *)

FeatureRows ==
  [amount : {1, 4}, previous_transaction_count : {0, 2},
   average_amount : {1000, 4000}, frequency : {0},
   time_since_last : {10, 30}, transaction_hour : {3, 12, 22},
   weekend : {0, 1}, source_risk_score : {100, 800},
   destination_risk_score : {100, 800}, geo_distance : {0},
   category_avg_amount : {1000}, category_max_amount : {1, 2},
   category_frequency : {0}, utilization_rate : {500, 950, 1100},
   fiscal_progress : {400, 600}]

InitTail ==
  /\ ServingIdle
  /\ pin \in [fn : {"detect_anomaly"}, prediction : {-1, 1},
              anomaly_score : {-6}, df_features : FeatureRows]
  /\ pout = NoResp

ApplyTail ==
  /\ pin.fn = "detect_anomaly"
  /\ pout = NoResp
  /\ pout' = [kind |-> "returned"]
               @@ detect_result(pin.prediction, pin.anomaly_score, pin.df_features)
  /\ UNCHANGED <<serving, pin>>

NextTail ==
  ApplyTail

SpecTail ==
  InitTail /\ [][NextTail]_vars

Fired(f) ==
  LET Test(r) == r.fires
      hits    == SelectSeq(Rules(f), Test)
  IN  [i \in 1..Len(hits) |-> hits[i].message]

\* C5: a returned result carries a reason iff is_anomaly is true; the reason
\* is the messages of all matching rules in table order joined by the
\* separator, and the fallback message alone exactly when no rule matches.
C5_ReasonIffAnomaly ==
  pout.kind = "returned" =>
    LET fired == Fired(pin.df_features)
    IN  /\ pout.reason.present <=> pout.is_anomaly
        /\ pout.is_anomaly <=> (pin.prediction = -1)
        /\ pout.reason.present =>
             /\ fired # <<>> => pout.reason.text = Join(Separator, fired)
             /\ (pout.reason.text = Fallback) <=> (fired = <<>>)

C5_Witness ==
  /\ pout.kind = "returned"
  /\ pout.is_anomaly
  /\ pout.reason.present
  /\ Len(Fired(pin.df_features)) >= 2
  /\ pout.reason.text # Fallback

------------------------------------------------------------------------------
(* extract_features (lines 99-190).  A transaction is a record             *)
(* [present, amount, timestamp, source_id, destination_id, fund_category,  *)
(* fiscal_year, budget_allocated, budget_utilized]: present is the set of  *)
(* the required keys the dict has, timestamp is [ok, h] (ok: fromisoformat *)
(* parses it), fiscal_year is [ok, start] (ok: strptime parses it, start:  *)
(* the hour of its July 1st).  The history of a request is a JSON list:    *)
(* its records carry every key and ISO strings as timestamps.              *)

HoursPerYear ==
  8760

Mean1000(amounts) ==
  (1000 * SumSeq(amounts)) \div Len(amounts)

extract_features(transaction, historical_data) ==
  LET txn_time == transaction.timestamp.h
      n        == Len(historical_data)
      times    == {historical_data[i].timestamp.h : i \in 1..n}
      range_h  == MaxOf(times) - MinOf(times)
      SameCat(r) == r.fund_category = transaction.fund_category
      category_txns == SelectSeq(historical_data, SameCat)
      cat_amounts == [i \in 1..Len(category_txns) |-> category_txns[i].amount]
      hist_amounts == [i \in 1..n |-> historical_data[i].amount]
      source_risk == calculate_entity_risk_score(transaction.source_id,
                                                 historical_data)
      destination_risk == calculate_entity_risk_score(transaction.destination_id,
                                                      historical_data)
      fiscal_progress ==
        IF transaction.fiscal_year.ok
        THEN (1000 * (txn_time - transaction.fiscal_year.start)) \div HoursPerYear
        ELSE 500
      utilization_rate ==
        IF transaction.budget_allocated > 0
        THEN (1000 * transaction.budget_utilized) \div transaction.budget_allocated
        ELSE 0
  IN  IF ~transaction.timestamp.ok THEN Raise("ValueError")          \* line 105
      ELSE IF n = 1 THEN Raise("UnboundLocalError")                 \* line 146
      ELSE IF source_risk.exc # "none" THEN source_risk              \* line 169
      ELSE IF destination_risk.exc # "none" THEN destination_risk    \* line 170
      ELSE Return(
        [amount |-> transaction.amount,
         previous_transaction_count |-> n,
         average_amount |-> IF n > 0 THEN Mean1000(hist_amounts)
                            ELSE 1000 * transaction.amount,
         frequency |-> IF n > 1 /\ range_h > 0
                       THEN (1000 * n * HoursPerWeek) \div range_h ELSE 0,
         time_since_last |-> IF n > 0 THEN txn_time - MaxOf(times) ELSE 0,
         transaction_hour |-> txn_time % 24,
         weekend |-> IF (txn_time \div 24) % 7 >= 5 THEN 1 ELSE 0,
         source_risk_score |-> source_risk.value,
         destination_risk_score |-> destination_risk.value,
         category_avg_amount |-> IF Len(category_txns) > 0
                                 THEN Mean1000(cat_amounts)
                                 ELSE 1000 * transaction.amount,
         category_max_amount |-> IF Len(category_txns) > 0
                                 THEN MaxOf(Range(cat_amounts))
                                 ELSE transaction.amount,
         category_frequency |-> IF n > 1 /\ range_h > 0
                                THEN (1000 * Len(category_txns) * HoursPerWeek)
                                       \div range_h
                                ELSE 0,
         utilization_rate |-> utilization_rate,
         fiscal_progress |-> fiscal_progress])

\* df[FEATURES] (lines 228 and 342) on a frame with the given columns.
SelectFeatures(frame) ==
  IF \A name \in Range(FEATURES) : name \in DOMAIN frame
  THEN Return([name \in Range(FEATURES) |-> frame[name]])
  ELSE Raise("KeyError")

\* The frame pd.DataFrame builds from feature dicts, and the same frame with
\* further columns (each 0) beside the extracted ones.
Frame(features, extra) ==
  [c \in (DOMAIN features) \cup extra |->
     IF c \in DOMAIN features THEN features[c] ELSE 0]

------------------------------------------------------------------------------
(* The fitted objects.  An object is [kind, pass, offset]: pass names the  *)
(* training pass that fitted it (0 is the seeded bootstrap of lines 50-88, *)
(* the same objects at every bootstrap), offset is offset_, the threshold  *)
(* IsolationForest.fit computes from the scores of its training batch.     *)

Absent ==
  [kind |-> "absent", pass |-> 0, offset |-> 0]

Corrupt ==
  [kind |-> "corrupt", pass |-> 0, offset |-> 0]

Offsets ==
  {-7, -4}

FittedModel(p, o) ==
  [kind |-> "model", pass |-> p, offset |-> o]

FittedScaler(p) ==
  [kind |-> "scaler", pass |-> p, offset |-> 0]

BootModel ==
  FittedModel(0, -6)

BootScaler ==
  FittedScaler(0)

Loadable(blob) ==
  blob.kind \in {"model", "scaler"}

\* scaler.transform (line 231): the scaled row remembers the scaler's pass.
transform(s, df_features) ==
  [by  |-> s.pass,
   row |-> df_features.amount + df_features.transaction_hour
             + df_features.weekend + df_features.previous_transaction_count]

\* model.score_samples (line 235): a score in [-1, 0), the lower the more
\* abnormal; each fitted forest is a table of its own.
score_samples(m, x) ==
  0 - (1 + ((x.row + 3 * x.by + 5 * m.pass) % 9))

\* model.predict (line 234): -1 where score_samples(x) - offset_ < 0, else 1.
predict(m, x) ==
  IF score_samples(m, x) - m.offset < 0 THEN -1 ELSE 1

\* joblib.dump (lines 91-92, 358-359): it writes the file, or raises and
\* leaves the file as it was or torn.
DumpOutcomes ==
  {"ok", "raised_kept", "raised_torn"}

Dumped(blob, obj, outcome) ==
  CASE outcome = "ok"          -> obj
    [] outcome = "raised_kept" -> blob
    [] outcome = "raised_torn" -> Corrupt

------------------------------------------------------------------------------
(* load_or_train_model (lines 41-94) and the module-level call of line 97. *)

\* load_or_train_model keeping whatever it could load.
load_or_train_model_partial(mb, sb, dumpModel, dumpScaler) ==
  [exc |-> "none",
   model |-> IF Loadable(mb) THEN mb ELSE NoObject,
   scaler |-> IF Loadable(sb) THEN sb ELSE NoObject,
   modelBlob |-> mb, scalerBlob |-> sb]

load_or_train_model(mb, sb, dumpModel, dumpScaler) ==
  IF Loadable(mb) /\ Loadable(sb)
  THEN [exc |-> "none", model |-> mb, scaler |-> sb, modelBlob |-> mb,
        scalerBlob |-> sb]
  ELSE IF dumpModel # "ok"
  THEN [exc |-> "OSError", model |-> NoObject, scaler |-> NoObject,
        modelBlob |-> Dumped(mb, BootModel, dumpModel), scalerBlob |-> sb]
  ELSE IF dumpScaler # "ok"
  THEN [exc |-> "OSError", model |-> NoObject, scaler |-> NoObject,
        modelBlob |-> BootModel,
        scalerBlob |-> Dumped(sb, BootScaler, dumpScaler)]
  ELSE [exc |-> "none", model |-> BootModel, scaler |-> BootScaler,
        modelBlob |-> BootModel, scalerBlob |-> BootScaler]

Startup ==
  /\ started = "boot"
  /\ \E dumpModel \in DumpOutcomes, dumpScaler \in DumpOutcomes :
       LET r == load_or_train_model(modelBlob, scalerBlob, dumpModel, dumpScaler)
       IN  /\ model' = r.model
           /\ scaler' = r.scaler
           /\ modelBlob' = r.modelBlob
           /\ scalerBlob' = r.scalerBlob
           /\ started' = IF r.exc = "none" THEN "up" ELSE "crashed"
  /\ UNCHANGED <<passes, det, ret, resp, pin, pout>>

\* The process is started again: the globals are gone, the files stay.
Restart ==
  /\ started \in {"up", "crashed"}
  /\ started' = "boot"
  /\ model' = NoObject /\ scaler' = NoObject
  /\ det' = Idle /\ ret' = Idle
  /\ resp' = NoResp
  /\ UNCHANGED <<modelBlob, scalerBlob, passes, pin, pout>>

\* health_check (lines 370-376).
health_check ==
  /\ started = "up"
  /\ resp' = [kind |-> "health",
              model_loaded |-> model # NoObject /\ scaler # NoObject]
  /\ UNCHANGED <<started, model, scaler, modelBlob, scalerBlob, passes, det,
                 ret, pin, pout>>

InitialBlobs ==
  {Absent, Corrupt}

Init ==
  /\ started = "boot"
  /\ model = NoObject /\ scaler = NoObject
  /\ modelBlob \in InitialBlobs \cup {BootModel}
  /\ scalerBlob \in InitialBlobs \cup {BootScaler}
  /\ passes = 0
  /\ det = Idle /\ ret = Idle
  /\ resp = NoResp
  /\ pin = NoCall /\ pout = NoResp

------------------------------------------------------------------------------
(* The requests.                                                           *)

Required ==
  <<"id", "amount", "timestamp">>

DayTxn ==
  [present |-> Range(Required), amount |-> 1,
   timestamp |-> [ok |-> TRUE, h |-> 12],
   source_id |-> "A", destination_id |-> "B", fund_category |-> "ROADS",
   fiscal_year |-> [ok |-> TRUE, start |-> -2000],
   budget_allocated |-> 10, budget_utilized |-> 5]

NightTxn ==
  [present |-> Range(Required), amount |-> 4,
   timestamp |-> [ok |-> TRUE, h |-> 143],
   source_id |-> "A", destination_id |-> "", fund_category |-> "ROADS",
   fiscal_year |-> [ok |-> FALSE, start |-> 0],
   budget_allocated |-> 10, budget_utilized |-> 11]

UnbudgetedTxn ==
  [present |-> Range(Required), amount |-> 2,
   timestamp |-> [ok |-> TRUE, h |-> 68],
   source_id |-> "", destination_id |-> "B", fund_category |-> "HEALTH",
   fiscal_year |-> [ok |-> TRUE, start |-> -6000],
   budget_allocated |-> 0, budget_utilized |-> 3]

Malformed(t) ==
  [t EXCEPT !.timestamp = [ok |-> FALSE, h |-> 0]]

Without(t, f) ==
  [t EXCEPT !.present = Range(Required) \ {f}]

Transactions ==
  UNION {{t, Malformed(t)} \cup {Without(t, f) : f \in Range(Required)} :
           t \in {DayTxn, NightTxn, UnbudgetedTxn}}

JsonRecord(src, amount, h) ==
  [source_id |-> src, destination_id |-> "D", amount |-> amount,
   timestamp |-> [kind |-> "str", h |-> h], fund_category |-> "ROADS"]

Histories ==
  { <<>>,
    <<JsonRecord("C", 1, 0)>>,
    <<JsonRecord("C", 1, 0), JsonRecord("C", 2, 6)>>,
    <<JsonRecord("C", 1, 6), JsonRecord("C", 3, 6)>>,
    <<JsonRecord("A", 1, 0), JsonRecord("C", 2, 6)>> }

DetectBodies ==
  [json : {FALSE}, has_transaction : {FALSE}, transaction : {DayTxn},
   historical_data : {<<>>}]
  \cup [json : {TRUE}, has_transaction : {FALSE}, transaction : {DayTxn},
        historical_data : {<<>>}]
  \cup [json : {TRUE}, has_transaction : {TRUE}, transaction : Transactions,
        historical_data : Histories]

MinTransactions ==
  100

\* A retrain batch: n transactions, valid of them with all of id, amount and
\* timestamp, and malformed: one of the valid ones has a timestamp that
\* fromisoformat rejects.
RetrainBatches ==
  {b \in [n : {0, 99, 100, 150}, valid : {0, 99, 100, 150}, malformed : BOOLEAN] :
     /\ b.valid <= b.n
     /\ b.malformed => b.valid > 0}

\* The requests SpecSel draws: one of each kind of answer.
SelBodies ==
  {b \in DetectBodies :
     \/ ~b.has_transaction
     \/ /\ b.transaction \in {Without(DayTxn, "id"), Malformed(DayTxn), DayTxn}
        /\ b.historical_data = <<>>
     \/ /\ b.transaction = NightTxn
        /\ Len(b.historical_data) > 0
        /\ b.historical_data[1] = JsonRecord("C", 1, 0)}

SelBatches ==
  {b \in RetrainBatches : b.n \in {99, 100} /\ b.valid \in {0, 99, 100}}

MissingFields(transaction) ==
  SelectSeq(Required, LAMBDA f : f \notin transaction.present)

------------------------------------------------------------------------------
(* api_detect_anomaly (lines 293-317) and detect_anomaly (lines 221-250).  *)
(* extra names the columns the frame of line 227 has beside the extracted  *)
(* ones.                                                                   *)

Rejected(body, message) ==
  [kind |-> "validation_error", status |-> 400, error |-> message, body |-> body]

Unhandled(body, exc, stage) ==
  [kind |-> "unhandled", status |-> 500, exc |-> exc, stage |-> stage,
   body |-> body]

\* Lines 296-310 and 224-228: validation, extraction, column selection.
DetectRequest(body, extra) ==
  /\ started = "up"
  /\ det = Idle
  /\ LET missing == MissingFields(body.transaction)
         e       == extract_features(body.transaction, body.historical_data)
         sel     == SelectFeatures(Frame(e.value, extra))
     IN  IF ~body.json
         THEN /\ resp' = Rejected(body, "Request must be JSON")
              /\ det' = det
         ELSE IF ~body.has_transaction
         THEN /\ resp' = Rejected(body, "Missing transaction data")
              /\ det' = det
         ELSE IF missing # <<>>
         THEN /\ resp' = Rejected(body, "Missing required field: " \o missing[1])
              /\ det' = det
         ELSE IF e.exc # "none"
         THEN /\ resp' = Unhandled(body, e.exc, "extract_features")
              /\ det' = det
         ELSE IF sel.exc # "none"
         THEN /\ resp' = Unhandled(body, sel.exc, "df[FEATURES]")
              /\ det' = det
         ELSE /\ det' = [pc |-> "transform", body |-> body,
                         df_features |-> sel.value]
              /\ resp' = resp
  /\ UNCHANGED <<started, model, scaler, modelBlob, scalerBlob, passes, ret,
                 pin, pout>>

\* Line 231: reads the global scaler.
DetectTransform ==
  /\ started = "up"
  /\ det.pc = "transform"
  /\ det' = [pc |-> "predict", body |-> det.body, df_features |-> det.df_features,
             df_scaled |-> transform(scaler, det.df_features),
             reads |-> <<scaler>>]
  /\ UNCHANGED <<started, model, scaler, modelBlob, scalerBlob, passes, ret,
                 resp, pin, pout>>

\* Line 234: reads the global model.
DetectPredict ==
  /\ started = "up"
  /\ det.pc = "predict"
  /\ det' = [pc |-> "score", body |-> det.body, df_features |-> det.df_features,
             df_scaled |-> det.df_scaled,
             prediction |-> predict(model, det.df_scaled),
             reads |-> Append(det.reads, model)]
  /\ UNCHANGED <<started, model, scaler, modelBlob, scalerBlob, passes, ret,
                 resp, pin, pout>>

\* Line 235 reads the global model again; lines 237-250 build the result and
\* lines 312-317 hand it to jsonify, which raises TypeError on the numpy.bool_
\* of line 238.
DetectScore ==
  /\ started = "up"
  /\ det.pc = "score"
  /\ det' = Idle
  /\ resp' = Unhandled(det.body, "TypeError", "jsonify")
                  @@ [result |-> detect_result(det.prediction,
                                               score_samples(model, det.df_scaled),
                                               det.df_features),
                      reads |-> Append(det.reads, model)]
  /\ UNCHANGED <<started, model, scaler, modelBlob, scalerBlob, passes, ret,
                 pin, pout>>

------------------------------------------------------------------------------
(* api_retrain_model (lines 319-368).                                      *)

Failed(call, exc, stage, m, s) ==
  [kind |-> "error", status |-> 500, exc |-> exc, stage |-> stage,
   batch |-> call.batch, before |-> call.before, built |-> call.built,
   after |-> <<m, s>>]

\* Lines 322-342: the length check, extraction of the valid transactions,
\* column selection.
RetrainRequest(batch, extra) ==
  /\ started = "up"
  /\ ret = Idle
  /\ passes < MaxPass
  /\ LET call == [batch |-> batch, before |-> <<model, scaler>>,
                  built |-> <<NoObject>>]
         e    == extract_features(
                   [DayTxn EXCEPT !.timestamp.ok = ~batch.malformed], <<>>)
         df   == IF batch.valid = 0 THEN <<>> ELSE Frame(e.value, extra)
         sel  == SelectFeatures(df)
     IN  IF batch.n < MinTransactions
         THEN /\ resp' = [kind |-> "insufficient", status |-> 400,
                             error |-> "Need at least 100 transactions for retraining",
                             batch |-> batch, before |-> call.before,
                             built |-> call.built, after |-> <<model, scaler>>]
              /\ ret' = ret
         ELSE IF batch.valid > 0 /\ e.exc # "none"
         THEN /\ resp' = Failed(call, e.exc, "extract_features", model, scaler)
              /\ ret' = ret
         ELSE IF sel.exc # "none"
         THEN /\ resp' = Failed(call, sel.exc, "df[FEATURES]", model, scaler)
              /\ ret' = ret
         ELSE /\ ret' = [pc |-> "fit"] @@ call
              /\ resp' = resp
  /\ UNCHANGED <<started, model, scaler, modelBlob, scalerBlob, passes, det,
                 pin, pout>>

\* RetrainFit assigning the global model as soon as it is fitted.
RetrainFit_PublishEarly ==
  /\ started = "up"
  /\ ret.pc = "fit"
  /\ \E o \in Offsets :
       /\ passes' = passes + 1
       /\ model' = FittedModel(passes + 1, o)
       /\ ret' = [ret EXCEPT !.pc = "dump_model",
                             !.built = <<FittedModel(passes + 1, o),
                                         FittedScaler(passes + 1)>>]
  /\ UNCHANGED <<started, scaler, modelBlob, scalerBlob, det, resp, pin, pout>>

\* Lines 345-355: fits a new scaler and a new forest; a degenerate batch
\* makes fit raise.
RetrainFit ==
  /\ started = "up"
  /\ ret.pc = "fit"
  /\ \/ /\ resp' = Failed(ret, "ValueError", "fit", model, scaler)
        /\ ret' = Idle
        /\ passes' = passes
     \/ \E o \in Offsets :
          /\ passes' = passes + 1
          /\ ret' = [ret EXCEPT !.pc = "dump_model",
                                !.built = <<FittedModel(passes + 1, o),
                                            FittedScaler(passes + 1)>>]
          /\ resp' = resp
  /\ UNCHANGED <<started, model, scaler, modelBlob, scalerBlob, det, pin, pout>>

\* Line 358.
RetrainDumpModel ==
  /\ started = "up"
  /\ ret.pc = "dump_model"
  /\ \E outcome \in DumpOutcomes :
       /\ modelBlob' = Dumped(modelBlob, ret.built[1], outcome)
       /\ IF outcome = "ok"
          THEN /\ ret' = [ret EXCEPT !.pc = "dump_scaler"]
               /\ resp' = resp
          ELSE /\ ret' = Idle
               /\ resp' = Failed(ret, "OSError", "dump model", model, scaler)
  /\ UNCHANGED <<started, model, scaler, scalerBlob, passes, det, pin, pout>>

\* Line 359.
RetrainDumpScaler ==
  /\ started = "up"
  /\ ret.pc = "dump_scaler"
  /\ \E outcome \in DumpOutcomes :
       /\ scalerBlob' = Dumped(scalerBlob, ret.built[2], outcome)
       /\ IF outcome = "ok"
          THEN /\ ret' = [ret EXCEPT !.pc = "publish_model"]
               /\ resp' = resp
          ELSE /\ ret' = Idle
               /\ resp' = Failed(ret, "OSError", "dump scaler", model, scaler)
  /\ UNCHANGED <<started, model, scaler, modelBlob, passes, det, pin, pout>>

\* Line 362.
RetrainPublishModel ==
  /\ started = "up"
  /\ ret.pc = "publish_model"
  /\ model' = ret.built[1]
  /\ ret' = [ret EXCEPT !.pc = "publish_scaler"]
  /\ UNCHANGED <<started, scaler, modelBlob, scalerBlob, passes, det, resp,
                 pin, pout>>

\* Lines 363-365.
RetrainPublishScaler ==
  /\ started = "up"
  /\ ret.pc = "publish_scaler"
  /\ scaler' = ret.built[2]
  /\ ret' = Idle
  /\ resp' = [kind |-> "success", status |-> 200, batch |-> ret.batch,
                 before |-> ret.before, built |-> ret.built,
                 after |-> <<model, ret.built[2]>>]
  /\ UNCHANGED <<started, model, modelBlob, scalerBlob, passes, det, pin, pout>>

------------------------------------------------------------------------------
(* Spec: the program as written; the frames hold the extracted columns and *)
(* nothing else.                                                           *)

Next ==
  \/ Startup
  \/ Restart
  \/ health_check
  \/ \E body \in DetectBodies : DetectRequest(body, {})
  \/ \E batch \in RetrainBatches : RetrainRequest(batch, {})

Spec ==
  Init /\ [][Next]_vars

------------------------------------------------------------------------------
(* SpecSel: the handlers past the column selections of lines 228 and 342,  *)
(* run on frames that hold a geo_distance column beside the extracted      *)
(* ones.  In Spec both selections raise and none of these steps is taken.  *)

NextSel ==
  \/ Startup
  \/ Restart
  \/ health_check
  \/ \E body \in SelBodies : DetectRequest(body, {"geo_distance"})
  \/ DetectTransform
  \/ DetectPredict
  \/ DetectScore
  \/ \E batch \in SelBatches : RetrainRequest(batch, {"geo_distance"})
  \/ RetrainFit
  \/ RetrainDumpModel
  \/ RetrainDumpScaler
  \/ RetrainPublishModel
  \/ RetrainPublishScaler

SpecSel ==
  Init /\ [][NextSel]_vars

------------------------------------------------------------------------------
(* The properties.                                                         *)

DetectAnswer ==
  resp.kind \in {"validation_error", "unhandled"}

RetrainAnswer ==
  resp.kind \in {"insufficient", "error", "success"}

Scored ==
  resp.kind = "unhandled" /\ resp.stage = "jsonify"

ReadsOfRequest ==
  IF det.pc \in {"predict", "score"} THEN det.reads
  ELSE IF Scored THEN resp.reads
  ELSE <<>>

C2_FewValidIsInsufficient ==
  (RetrainAnswer /\ resp.batch.valid < MinTransactions) =>
    /\ resp.kind = "insufficient"
    /\ resp.after = resp.before

\* C3: a retrain call ends either with success and the serving pair being the
\* pair it built, or with an error and the serving pair as before the call;
\* no failing step leaves the pair partly or wholly replaced.
C3_RetrainAllOrNothing ==
  RetrainAnswer =>
    \/ /\ resp.kind = "success"
       /\ resp.built[1].kind = "model" /\ resp.built[2].kind = "scaler"
       /\ resp.after = resp.built
    \/ /\ resp.kind \in {"insufficient", "error"}
       /\ resp.after = resp.before

C3_Witness ==
  /\ resp.kind = "error"
  /\ resp.stage = "dump scaler"
  /\ resp.built[1].kind = "model"
  /\ resp.after = resp.before
  /\ <<model, scaler>> = resp.before

C6_HealthLoaded ==
  /\ started = "up" => (model # NoObject /\ scaler # NoObject)
  /\ resp.kind = "health" => resp.model_loaded

C6_Witness ==
  /\ started = "up"
  /\ resp.kind = "health"
  /\ resp.model_loaded
  /\ scalerBlob = BootScaler /\ modelBlob = BootModel

InvalidBody(body) ==
  /\ body.json /\ body.has_transaction
  /\ \/ body.transaction.present # Range(Required)
     \/ ~body.transaction.timestamp.ok

\* C7: a score request whose transaction lacks id, amount or timestamp, or
\* has a malformed timestamp, is answered with a structured validation error
\* and no result.
C7_InvalidScoreRejected ==
  (DetectAnswer /\ InvalidBody(resp.body)) =>
    /\ resp.kind = "validation_error"
    /\ resp.status = 400

\* C9: FEATURES is exactly the set of fields extract_features produces, so
\* the column selection succeeds for every valid transaction, when scoring
\* and when retraining.
C9_FeaturesAreExtracted ==
  /\ (DetectAnswer /\ resp.kind = "unhandled" /\ resp.stage # "extract_features") =>
       /\ resp.stage # "df[FEATURES]"
       /\ Range(FEATURES) = DOMAIN extract_features(resp.body.transaction,
                                                    resp.body.historical_data).value
  /\ (resp.kind = "error" /\ resp.batch.valid > 0) => resp.stage # "df[FEATURES]"

====
